---- MODULE Spec2Model ----
(***************************************************************************)
(* The ILP timetable solver service (src/ilp-solver/app.py): the lab pass  *)
(* solve_lab_timetable and the theory pass solve_theory_timetable.  Each   *)
(* request is one run of a pipeline: index the faculty availability,       *)
(* enumerate the decision variables, build the constraints and the         *)
(* objective, call the CP-SAT solver, and turn its status and values into  *)
(* a response.  The solver is an external library: it is modelled by its   *)
(* contract (any assignment of the variables that satisfies every          *)
(* constraint, a minimal one when it reports OPTIMAL).                     *)
(***************************************************************************)
EXTENDS Integers, Sequences, FiniteSets, TLC

VARIABLES
    endpoint,           \* "solve-labs" or "solve-theory": the handler that runs
    data,               \* the request body (ProblemData / TheoryProblemData)
    pc,                 \* the handler's position
    faculty_avail_map,  \* facultyId -> [all, avail]
    existing,           \* theory: [faculty, room, section]: id -> set of <<day, period>>
    valid_assignments,  \* the keys of the decision variables created so far
    constraints,        \* the constraints added to the CP model (model.Add)
    objective,          \* [set, terms]: model.Minimize, when it was called
    unschedulable_labs, \* lab pass: the per-course diagnosis records
    status,             \* the solver's status, "" before Solve
    values,             \* the variables the solver set to 1
    solveCalls,         \* how often solver.Solve was called
    steps,              \* the pipeline steps run so far, in order
    response            \* what the handler returns or raises

vars == << endpoint, data, pc, faculty_avail_map, existing, valid_assignments,
           constraints, objective, unschedulable_labs, status, values,
           solveCalls, steps, response >>

----------------------------------------------------------------------------
(* Bounds of the explored inputs.                                          *)

MaxCourses == 2
MaxRooms == 2
MaxAvail == 1
MaxVars == 8

SectionIds == {"s1", "s2"}
FacultyIds == {"f1", "f2"}
StudentCounts == {10, 20}
YearLevels == {1, 2}
Capacities == {8, 20}
DaysPerWeekValues == {1, 6}
PeriodsPerDayValues == {4, 8}

Window(d, s, e) == [dayOfWeek |-> d, startPeriod |-> s, endPeriod |-> e]

\* The window lists a faculty entry may carry: none, a window of four
\* periods that matches no block, a short window, a whole Saturday, and the
\* morning block given as two adjacent windows.
WindowLists ==
    { << >>,
      << Window(0, 2, 5) >>,
      << Window(0, 1, 2) >>,
      << Window(5, 1, 8) >>,
      << Window(0, 1, 2), Window(0, 3, 4) >> }

SeqsUpTo(S, n) == UNION { [1..k -> S] : k \in 0..n }

----------------------------------------------------------------------------
(* Program constants.                                                      *)

Saturday == 5
LunchLastPeriod == 4
LastPeriod == 8
CapacityPercent == 85
LabBlockLength == 4

blocks == {"M", "A"}

block_periods(block) == IF block = "M" THEN 1..4 ELSE 5..8

\* range(a, b) of Python, as a set
Range(a, b) == a..(b - 1)

----------------------------------------------------------------------------
(* Arithmetic helpers.                                                     *)

Max(a, b) == IF a >= b THEN a ELSE b

\* int(studentCount * 0.85): the float product truncated.  For the counts
\* 0..2000 the truncated float equals the integer quotient below.
MinAcceptable(studentCount) == (CapacityPercent * studentCount) \div 100

RECURSIVE SumTerms(_)
SumTerms(T) ==
    IF T = {} THEN 0
    ELSE LET t == CHOOSE x \in T : TRUE
         IN  t[1] + SumTerms(T \ {t})

----------------------------------------------------------------------------
(* The availability indexer.                                               *)

\* The (day, period) pairs of a list of windows.
AvailSet(slots) ==
    UNION { { <<slots[i].dayOfWeek, p>> :
                p \in Range(slots[i].startPeriod, slots[i].endPeriod + 1) } :
            i \in DOMAIN slots }

\* faculty_avail_map: a later entry of the same faculty replaces an earlier.
FacultyAvailMap(fas) ==
    [ f \in { fas[i].facultyId : i \in DOMAIN fas } |->
        LET last == CHOOSE i \in DOMAIN fas :
                        /\ fas[i].facultyId = f
                        /\ \A j \in DOMAIN fas : fas[j].facultyId = f => j <= i
        IN  IF fas[last].slots = << >>
            THEN [all |-> TRUE, avail |-> {}]
            ELSE [all |-> FALSE, avail |-> AvailSet(fas[last].slots)] ]

\* faculty_avail_map.get(facultyId, "all")
FacultyAvail(map, f) ==
    IF f \in DOMAIN map THEN map[f] ELSE [all |-> TRUE, avail |-> {}]

\* An indexer whose windows exclude nothing.
FacultyFreeAlways(map, f, day, periods) == TRUE

FacultyFree(map, f, day, periods) ==
    LET fa == FacultyAvail(map, f)
    IN  fa.all \/ \A p \in periods : <<day, p>> \in fa.avail

----------------------------------------------------------------------------
(* The lab pass: the variable space.                                       *)

Days(rules) == Range(0, rules.daysPerWeek)

LabRoomFits(room, course) ==
    ~ (room.capacity < MinAcceptable(course.studentCount))

\* An enumerator without the Saturday rule.
LabBlockAllowedAnyYear(map, course, day, block) ==
    FacultyFree(map, course.facultyId, day, block_periods(block))

LabBlockAllowed(map, course, day, block) ==
    /\ ~ (day = Saturday /\ block = "A" /\ course.yearLevel # 1)
    /\ FacultyFree(map, course.facultyId, day, block_periods(block))

\* The keys <<c_idx, day, block, r_idx>> for which a variable is created.
LabValidAssignments(d, map) ==
    { v \in (DOMAIN d.courses) \X Days(d.rules) \X blocks \X (DOMAIN d.rooms) :
        /\ LabBlockAllowed(map, d.courses[v[1]], v[2], v[3])
        /\ LabRoomFits(d.rooms[v[4]], d.courses[v[1]]) }

CourseVars(va, c) == { v \in va : v[1] = c }

----------------------------------------------------------------------------
(* Constraints of the CP model.  A constraint is a linear sum of boolean   *)
(* variables, each with a coefficient, compared with a number.             *)

Constraint(terms, rel, rhs) == [terms |-> terms, rel |-> rel, rhs |-> rhs]

\* model.Add(sum(period_vars) <= 1), added only for a non-empty list
AtMostOne(period_vars) ==
    IF period_vars = {} THEN {}
    ELSE { Constraint({ <<1, v>> : v \in period_vars }, "le", 1) }

\* A load constraint that only forbids a second placement.
LabLoadAtMostOne(va, c) ==
    Constraint({ <<1, v>> : v \in CourseVars(va, c) }, "le", 1)

\* Lab pass, constraint 1: model.Add(sum(course_vars) == 1)
LabLoadConstraint(va, c) ==
    Constraint({ <<1, v>> : v \in CourseVars(va, c) }, "eq", 1)

\* The periods for which the non-overlap constraints are generated.
ConstrainedPeriods(rules) == Range(1, rules.periodsPerDay + 1)

\* Lab pass, constraint 2: room non-overlap, per room, day and period
LabRoomConstraints(d, va) ==
    UNION { AtMostOne({ v \in va : v[4] = r /\ v[2] = day
                                   /\ period \in block_periods(v[3]) }) :
            <<r, day, period>> \in
                (DOMAIN d.rooms) \X Days(d.rules) \X ConstrainedPeriods(d.rules) }

\* section_to_courses / faculty_to_courses: the course indices of one key
CoursesOfSection(d, s) == { c \in DOMAIN d.courses : d.courses[c].sectionId = s }
CoursesOfFaculty(d, f) == { c \in DOMAIN d.courses : d.courses[c].facultyId = f }
SectionsOf(d) == { d.courses[c].sectionId : c \in DOMAIN d.courses }
FacultiesOf(d) == { d.courses[c].facultyId : c \in DOMAIN d.courses }

\* Lab pass, constraints 3 and 4: non-overlap within a group of courses
LabGroupConstraints(d, va, course_indices) ==
    UNION { AtMostOne({ v \in va : v[1] \in course_indices /\ v[2] = day
                                   /\ period \in block_periods(v[3]) }) :
            <<day, period>> \in Days(d.rules) \X ConstrainedPeriods(d.rules) }

LabSectionConstraints(d, va) ==
    UNION { LabGroupConstraints(d, va, CoursesOfSection(d, s)) : s \in SectionsOf(d) }

LabFacultyConstraints(d, va) ==
    UNION { LabGroupConstraints(d, va, CoursesOfFaculty(d, f)) : f \in FacultiesOf(d) }

\* Lab pass, objective: penalty = max(0, room.capacity - course.studentCount)
LabPenalty(d, v) ==
    Max(0, d.rooms[v[4]].capacity - d.courses[v[1]].studentCount)

\* A model on which Minimize is never called.
LabObjectiveUnset(d, va) == [set |-> FALSE, terms |-> {}]

LabObjective(d, va) ==
    [set |-> va # {}, terms |-> { <<LabPenalty(d, v), v>> : v \in va }]

----------------------------------------------------------------------------
(* Lab pass: the diagnosis of a course without any variable.               *)

ReasonNoRooms == "No rooms with capacity >= min_acceptable"
ReasonNoWindows == "Faculty has NO availability windows"
ReasonShortWindows == "Faculty windows don't allow 4-period blocks"
UnknownConflict == "Unknown constraint conflict"

\* faculty_info.slots of the first entry of that faculty, [] when none
FacultySlotsList(fas, f) ==
    IF \E i \in DOMAIN fas : fas[i].facultyId = f
    THEN fas[CHOOSE i \in DOMAIN fas :
                /\ fas[i].facultyId = f
                /\ \A j \in DOMAIN fas : fas[j].facultyId = f => i <= j].slots
    ELSE << >>

\* len(valid_blocks): the starts of 4-period runs inside each window
ValidBlockCount(slots) ==
    SumTerms({ << Cardinality(Range(slots[i].startPeriod,
                                    slots[i].endPeriod - 3 + 1)), i >> :
               i \in DOMAIN slots })

SuitableRooms(d, course) ==
    { r \in DOMAIN d.rooms : d.rooms[r].capacity >= MinAcceptable(course.studentCount) }

BlockingReasons(d, course) ==
    LET slots == FacultySlotsList(d.facultyAvailability, course.facultyId)
    IN  (IF SuitableRooms(d, course) = {} THEN << ReasonNoRooms >> ELSE << >>)
        \o (IF Len(slots) = 0 THEN << ReasonNoWindows >>
            ELSE IF ValidBlockCount(slots) = 0 THEN << ReasonShortWindows >>
            ELSE << >>)

Diagnosis(d, c) ==
    LET course == d.courses[c]
        reasons == BlockingReasons(d, course)
    IN  [ c |-> c,
          suitableRooms |-> Cardinality(SuitableRooms(d, course)),
          facultyWindows |-> Len(FacultySlotsList(d.facultyAvailability,
                                                  course.facultyId)),
          blockingReasons |-> reasons,
          reason |-> IF reasons # << >> THEN reasons ELSE << UnknownConflict >> ]

\* The diagnosis records of the courses without variables, in course order.
RECURSIVE UnschedulableLabs(_, _, _)
UnschedulableLabs(d, va, c) ==
    IF c > Len(d.courses) THEN << >>
    ELSE (IF CourseVars(va, c) # {} THEN << >> ELSE << Diagnosis(d, c) >>)
         \o UnschedulableLabs(d, va, c + 1)

\* A check that lets the pipeline run on whatever the diagnosis found.
FailHardNever(labs) == FALSE

\* `if unschedulable_labs:` the pipeline stops before the other constraints
FailHard(labs) == labs # << >>

\* What the ValueError message (and so the HTTP 500 detail) says of a lab.
ErrorDetail(lab) ==
    [ c |-> lab.c, suitableRooms |-> lab.suitableRooms,
      facultyWindows |-> lab.facultyWindows ]

----------------------------------------------------------------------------
(* The solver (cp_model.CpSolver.Solve), by its contract.                  *)

\* The value of a constraint's sum when exactly the variables of S are 1.
Lhs(con, S) == SumTerms({ t \in con.terms : t[2] \in S })

Holds(con, S) ==
    IF con.rel = "eq" THEN Lhs(con, S) = con.rhs ELSE Lhs(con, S) <= con.rhs

Satisfies(S, cons) == \A con \in cons : Holds(con, S)

\* Every coefficient is positive, so a sum above its bound stays above it.
NotExceeded(S, cons, v) ==
    \A con \in cons : (\E t \in con.terms : t[2] = v) => Lhs(con, S) <= con.rhs

RECURSIVE Search(_, _, _)
Search(rest, chosen, cons) ==
    IF rest = {} THEN (IF Satisfies(chosen, cons) THEN {chosen} ELSE {})
    ELSE LET v == CHOOSE x \in rest : TRUE
             with == chosen \cup {v}
         IN  Search(rest \ {v}, chosen, cons)
             \cup (IF NotExceeded(with, cons, v)
                   THEN Search(rest \ {v}, with, cons) ELSE {})

\* All assignments of the variables that satisfy every constraint, each
\* given as the set of the variables that are 1.
Solutions(va, cons) == Search(va, {}, cons)

Cost(obj, S) == SumTerms({ t \in obj.terms : t[2] \in S })

\* The solutions of least cost; every solution when nothing is minimized.
OptimalSolutions(obj, sols) ==
    IF ~ obj.set \/ sols = {} THEN sols
    ELSE LET cost == [ S \in sols |-> Cost(obj, S) ]
             least == CHOOSE m \in { cost[S] : S \in sols } :
                         \A S \in sols : m <= cost[S]
         IN  { S \in sols : cost[S] = least }

----------------------------------------------------------------------------
(* Responses.                                                              *)

NoResponse ==
    [ kind |-> "none", status_code |-> 0, success |-> FALSE, status |-> "",
      assignments |-> {}, diagnostic |-> << >>, detail |-> << >> ]

\* raise HTTPException(status_code=500, detail=str(e))
HTTPException500(detail) ==
    [ kind |-> "HTTPException", status_code |-> 500, success |-> FALSE,
      status |-> "", assignments |-> {}, diagnostic |-> << >>,
      detail |-> detail ]

SolutionResponse(success, st, assignments, diagnostic) ==
    [ kind |-> "SolutionResponse", status_code |-> 200, success |-> success,
      status |-> st, assignments |-> assignments, diagnostic |-> diagnostic,
      detail |-> << >> ]

\* The Assignment of a lab variable that is 1.  A course is identified by
\* its index (its subjectId), a room by its index (its id).
LabAssignment(d, v) ==
    LET periods == block_periods(v[3])
    IN  [ c |-> v[1], sectionId |-> d.courses[v[1]].sectionId, day |-> v[2],
          startPeriod |-> CHOOSE p \in periods : \A q \in periods : p <= q,
          endPeriod |-> CHOOSE p \in periods : \A q \in periods : p >= q,
          roomId |-> v[4] ]

\* Lab pass, status INFEASIBLE: one entry per course without any variable.
RECURSIVE LabDiagnostic(_, _, _)
LabDiagnostic(d, va, c) ==
    IF c > Len(d.courses) THEN << >>
    ELSE (IF CourseVars(va, c) = {} THEN << c >> ELSE << >>)
         \o LabDiagnostic(d, va, c + 1)

----------------------------------------------------------------------------
(* The requests explored.                                                  *)

LabCourses ==
    [ sectionId : SectionIds, facultyId : FacultyIds,
      studentCount : StudentCounts, yearLevel : YearLevels ]

Rooms == [ capacity : Capacities ]

FacultyAvailabilities == [ facultyId : FacultyIds, slots : WindowLists ]

LabRules ==
    [ labPeriods : {LabBlockLength}, daysPerWeek : DaysPerWeekValues,
      periodsPerDay : PeriodsPerDayValues ]

\* Section and faculty identities are interchangeable: the first course
\* carries the first of each.
FirstIsCanonical(cs) ==
    Len(cs) > 0 => cs[1].sectionId = "s1" /\ cs[1].facultyId = "f1"

\* yearLevel is read only on day 5: a week without that day is explored
\* with year 1 alone.
YearLevelMatters(d) ==
    d.rules.daysPerWeek <= Saturday =>
        \A c \in DOMAIN d.courses : d.courses[c].yearLevel = 1

LabInputs ==
    { d \in [ courses : { cs \in SeqsUpTo(LabCourses, MaxCourses) :
                            FirstIsCanonical(cs) },
              rooms : SeqsUpTo(Rooms, MaxRooms),
              facultyAvailability : SeqsUpTo(FacultyAvailabilities, MaxAvail),
              rules : LabRules ] :
        /\ YearLevelMatters(d)
        /\ Cardinality(LabValidAssignments(d, FacultyAvailMap(d.facultyAvailability)))
              <= MaxVars }

----------------------------------------------------------------------------
(* The lab pass, solve_lab_timetable, step by step.                        *)

LabInit ==
    /\ endpoint = "solve-labs"
    /\ data \in LabInputs
    /\ pc = "index"
    /\ faculty_avail_map = << >>
    /\ existing = << >>
    /\ valid_assignments = {}
    /\ constraints = {}
    /\ objective = [set |-> FALSE, terms |-> {}]
    /\ unschedulable_labs = << >>
    /\ status = ""
    /\ values = {}
    /\ solveCalls = 0
    /\ steps = << >>
    /\ response = NoResponse

Step(name, next) ==
    /\ pc = name
    /\ pc' = next
    /\ steps' = Append(steps, name)

LabIndex ==
    /\ endpoint = "solve-labs"
    /\ Step("index", "enumerate")
    /\ faculty_avail_map' = FacultyAvailMap(data.facultyAvailability)
    /\ UNCHANGED << endpoint, data, existing, valid_assignments, constraints,
                    objective, unschedulable_labs, status, values, solveCalls,
                    response >>

LabEnumerate ==
    /\ endpoint = "solve-labs"
    /\ Step("enumerate", "load")
    /\ valid_assignments' = LabValidAssignments(data, faculty_avail_map)
    /\ UNCHANGED << endpoint, data, faculty_avail_map, existing, constraints,
                    objective, unschedulable_labs, status, values, solveCalls,
                    response >>

\* Constraint 1 for every course with variables, a diagnosis for the others.
LabLoad ==
    /\ endpoint = "solve-labs"
    /\ Step("load", "room")
    /\ constraints' = constraints \cup
          { LabLoadConstraint(valid_assignments, c) :
              c \in { k \in DOMAIN data.courses :
                        CourseVars(valid_assignments, k) # {} } }
    /\ unschedulable_labs' = UnschedulableLabs(data, valid_assignments, 1)
    /\ UNCHANGED << endpoint, data, faculty_avail_map, existing,
                    valid_assignments, objective, status, values, solveCalls,
                    response >>

\* raise ValueError(...), caught by `except Exception` and raised again as
\* HTTPException(status_code=500)
LabFailHard ==
    /\ endpoint = "solve-labs"
    /\ FailHard(unschedulable_labs)
    /\ pc = "room"
    /\ pc' = "done"
    /\ steps' = Append(steps, "raise")
    /\ response' = HTTPException500(
                      [ i \in DOMAIN unschedulable_labs |->
                          ErrorDetail(unschedulable_labs[i]) ])
    /\ UNCHANGED << endpoint, data, faculty_avail_map, existing,
                    valid_assignments, constraints, objective,
                    unschedulable_labs, status, values, solveCalls >>

LabRooms ==
    /\ endpoint = "solve-labs"
    /\ ~ FailHard(unschedulable_labs)
    /\ Step("room", "section")
    /\ constraints' = constraints \cup LabRoomConstraints(data, valid_assignments)
    /\ UNCHANGED << endpoint, data, faculty_avail_map, existing,
                    valid_assignments, objective, unschedulable_labs, status,
                    values, solveCalls, response >>

LabSections ==
    /\ endpoint = "solve-labs"
    /\ Step("section", "faculty")
    /\ constraints' = constraints \cup LabSectionConstraints(data, valid_assignments)
    /\ UNCHANGED << endpoint, data, faculty_avail_map, existing,
                    valid_assignments, objective, unschedulable_labs, status,
                    values, solveCalls, response >>

LabFaculty ==
    /\ endpoint = "solve-labs"
    /\ Step("faculty", "objective")
    /\ constraints' = constraints \cup LabFacultyConstraints(data, valid_assignments)
    /\ UNCHANGED << endpoint, data, faculty_avail_map, existing,
                    valid_assignments, objective, unschedulable_labs, status,
                    values, solveCalls, response >>

LabMinimize ==
    /\ endpoint = "solve-labs"
    /\ Step("objective", "solve")
    /\ objective' = LabObjective(data, valid_assignments)
    /\ UNCHANGED << endpoint, data, faculty_avail_map, existing,
                    valid_assignments, constraints, unschedulable_labs, status,
                    values, solveCalls, response >>

----------------------------------------------------------------------------
(* status = solver.Solve(model), in either pass.                           *)

SolveReturns(st, S) ==
    /\ Step("solve", "process")
    /\ solveCalls' = solveCalls + 1
    /\ status' = st
    /\ values' = S
    /\ UNCHANGED << endpoint, data, faculty_avail_map, existing,
                    valid_assignments, constraints, objective,
                    unschedulable_labs, response >>

\* What Solve may return, <<status, the variables that are 1>>.  OPTIMAL: a
\* solution proved minimal (any solution when the model has no objective).
\* FEASIBLE: the time limit ended the search after a solution and before
\* the proof.  INFEASIBLE: proved to have no solution.  UNKNOWN: the time
\* limit ended the search before any answer.
SolveOutcomes(va, cons, obj) ==
    LET sols == Solutions(va, cons)
    IN  { <<"OPTIMAL", S>> : S \in OptimalSolutions(obj, sols) }
        \cup (IF obj.set THEN { <<"FEASIBLE", S>> : S \in sols } ELSE {})
        \cup (IF sols = {} THEN { <<"INFEASIBLE", {}>> } ELSE {})
        \cup { <<"UNKNOWN", {}>> }

Solve ==
    \E r \in SolveOutcomes(valid_assignments, constraints, objective) :
        SolveReturns(r[1], r[2])

----------------------------------------------------------------------------
(* Lab pass: the response.                                                 *)

LabRespond(r) ==
    /\ endpoint = "solve-labs"
    /\ Step("process", "done")
    /\ response' = r
    /\ UNCHANGED << endpoint, data, faculty_avail_map, existing,
                    valid_assignments, constraints, objective,
                    unschedulable_labs, status, values, solveCalls >>

LabSolution ==
    /\ status \in {"OPTIMAL", "FEASIBLE"}
    /\ LabRespond(SolutionResponse(TRUE, status,
                    { LabAssignment(data, v) :
                        v \in { x \in valid_assignments : x \in values } },
                    << >>))

LabInfeasible ==
    /\ status = "INFEASIBLE"
    /\ LabRespond(SolutionResponse(FALSE, "INFEASIBLE", {},
                    LabDiagnostic(data, valid_assignments, 1)))

LabOtherStatus ==
    /\ status \notin {"OPTIMAL", "FEASIBLE", "INFEASIBLE"}
    /\ LabRespond(SolutionResponse(FALSE, status, {}, << >>))

LabNext ==
    \/ LabIndex \/ LabEnumerate \/ LabLoad \/ LabFailHard \/ LabRooms
    \/ LabSections \/ LabFaculty \/ LabMinimize \/ Solve
    \/ LabSolution \/ LabInfeasible \/ LabOtherStatus

LabSpec == LabInit /\ [][LabNext]_vars

----------------------------------------------------------------------------
(* The theory pass: the occupancy indexes of the existing assignments.     *)

OccupiedBy(eas, field, id) ==
    UNION { { <<eas[i].day, p>> :
                p \in Range(eas[i].startPeriod, eas[i].endPeriod + 1) } :
            i \in { j \in DOMAIN eas : eas[j][field] = id } }

\* existing_faculty, existing_room, existing_section
ExistingMaps(eas) ==
    [ faculty |-> [ f \in { eas[i].facultyId : i \in DOMAIN eas } |->
                      OccupiedBy(eas, "facultyId", f) ],
      room    |-> [ r \in { eas[i].roomId : i \in DOMAIN eas } |->
                      OccupiedBy(eas, "roomId", r) ],
      section |-> [ s \in { eas[i].sectionId : i \in DOMAIN eas } |->
                      OccupiedBy(eas, "sectionId", s) ] ]

\* Occupancy indexes that are never consulted.
BlockedNothing(map, id) == {}

\* existing_x.get(id, set())
Blocked(map, id) == IF id \in DOMAIN map THEN map[id] ELSE {}

----------------------------------------------------------------------------
(* The theory pass: the variable space.                                    *)

block_sizes == {1, 2, 3}

\* max_period = 4 if (day == 5 and course.yearLevel != 1) else 8
MaxPeriod(course, day) ==
    IF day = Saturday /\ course.yearLevel # 1 THEN LunchLastPeriod ELSE LastPeriod

BlockPeriods(start, size) == Range(start, start + size)

\* An enumerator without the lunch rule.
StraddlesLunchNever(start, size) == FALSE

\* if start <= 4 and end >= 5: continue
StraddlesLunch(start, size) ==
    start <= LunchLastPeriod /\ start + size - 1 >= LunchLastPeriod + 1

\* The placements <<day, start, size>> a course may take, rooms aside.
TheoryPlacementAllowed(map, ex, course, day, start, size) ==
    /\ ~ (size > course.periodsPerWeek)
    /\ start \in Range(1, MaxPeriod(course, day) - size + 2)
    /\ ~ StraddlesLunch(start, size)
    /\ FacultyFree(map, course.facultyId, day, BlockPeriods(start, size))
    /\ \A p \in BlockPeriods(start, size) :
          /\ <<day, p>> \notin Blocked(ex.section, course.sectionId)
          /\ <<day, p>> \notin Blocked(ex.faculty, course.facultyId)

\* The lab pass's relaxed capacity rule applied to theory rooms.
TheoryRoomFitsRelaxed(room, course) ==
    ~ (room.capacity < MinAcceptable(course.studentCount))

TheoryRoomFits(room, course) == ~ (room.capacity < course.studentCount)

TheoryRoomFree(ex, r, day, start, size) ==
    \A p \in BlockPeriods(start, size) : <<day, p>> \notin Blocked(ex.room, r)

\* The keys <<c_idx, day, start, size, r_idx>> for which a variable is created.
TheoryValidAssignments(d, map, ex) ==
    { v \in (DOMAIN d.courses) \X Days(d.rules) \X (1..LastPeriod)
              \X block_sizes \X (DOMAIN d.rooms) :
        /\ TheoryPlacementAllowed(map, ex, d.courses[v[1]], v[2], v[3], v[4])
        /\ TheoryRoomFits(d.rooms[v[5]], d.courses[v[1]])
        /\ TheoryRoomFree(ex, v[5], v[2], v[3], v[4]) }

----------------------------------------------------------------------------
(* The theory pass: constraints and objective.                             *)

\* model.Add(sum(size * T[...]) == course.periodsPerWeek)
TheoryLoadConstraint(d, va, c) ==
    Constraint({ <<v[4], v>> : v \in CourseVars(va, c) }, "eq",
               d.courses[c].periodsPerWeek)

Occupies(v, period) == v[3] <= period /\ period <= v[3] + v[4] - 1

TheoryRoomConstraints(d, va) ==
    UNION { AtMostOne({ v \in va : v[5] = r /\ v[2] = day /\ Occupies(v, period) }) :
            <<r, day, period>> \in
                (DOMAIN d.rooms) \X Days(d.rules) \X ConstrainedPeriods(d.rules) }

TheoryGroupConstraints(d, va, course_indices) ==
    UNION { AtMostOne({ v \in va : v[1] \in course_indices /\ v[2] = day
                                   /\ Occupies(v, period) }) :
            <<day, period>> \in Days(d.rules) \X ConstrainedPeriods(d.rules) }

TheorySectionConstraints(d, va) ==
    UNION { TheoryGroupConstraints(d, va, CoursesOfSection(d, s)) :
            s \in SectionsOf(d) }

TheoryFacultyConstraints(d, va) ==
    UNION { TheoryGroupConstraints(d, va, CoursesOfFaculty(d, f)) :
            f \in FacultiesOf(d) }

\* A model without the daily cap.
TheoryDayConstraintsNone(d, va) == {}

\* model.Add(sum(size * T[...]) <= rules.maxPeriodsPerDay), per section and day
TheoryDayConstraints(d, va) ==
    UNION { LET day_vars == { v \in va : v[1] \in CoursesOfSection(d, sd[1])
                                         /\ v[2] = sd[2] }
            IN  IF day_vars = {} THEN {}
                ELSE { Constraint({ <<v[4], v>> : v \in day_vars }, "le",
                                  d.rules.maxPeriodsPerDay) } :
            sd \in SectionsOf(d) \X Days(d.rules) }

AfternoonPenalty == 10
SaturdayPenalty == 5

TheoryPenalty(d, v) ==
    Max(0, d.rooms[v[5]].capacity - d.courses[v[1]].studentCount)
    + (IF v[3] >= LunchLastPeriod + 1 THEN AfternoonPenalty ELSE 0)
    + (IF v[2] = Saturday THEN SaturdayPenalty ELSE 0)

TheoryObjective(d, va) ==
    [set |-> va # {}, terms |-> { <<TheoryPenalty(d, v), v>> : v \in va }]

TheoryAssignment(d, v) ==
    [ c |-> v[1], sectionId |-> d.courses[v[1]].sectionId, day |-> v[2],
      startPeriod |-> v[3], endPeriod |-> v[3] + v[4] - 1, roomId |-> v[5] ]

----------------------------------------------------------------------------
(* The theory requests explored.                                           *)

TheoryStudentCounts == {10}
PeriodsPerWeekValues == {1, 3}
MaxExisting == 1

\* The rules explored: a one-day week with the defaults, with a short day and
\* with a daily cap below a course's load, and a whole week.
TheoryRules ==
    { [ daysPerWeek |-> 1, periodsPerDay |-> 8, maxPeriodsPerBlock |-> 2,
        maxPeriodsPerDay |-> 8 ],
      [ daysPerWeek |-> 1, periodsPerDay |-> 4, maxPeriodsPerBlock |-> 2,
        maxPeriodsPerDay |-> 8 ],
      [ daysPerWeek |-> 1, periodsPerDay |-> 8, maxPeriodsPerBlock |-> 2,
        maxPeriodsPerDay |-> 2 ],
      [ daysPerWeek |-> 6, periodsPerDay |-> 8, maxPeriodsPerBlock |-> 2,
        maxPeriodsPerDay |-> 8 ] }

TheoryWindowLists ==
    { << >>, << Window(0, 2, 5) >>, << Window(5, 3, 5) >> }

TheoryCourses ==
    [ sectionId : SectionIds, facultyId : FacultyIds,
      studentCount : TheoryStudentCounts, yearLevel : YearLevels,
      periodsPerWeek : PeriodsPerWeekValues ]

\* A lab of section s2 with faculty f2 in the first room, Monday morning.
ExistingAssignments ==
    { [ sectionId |-> "s2", day |-> 0, startPeriod |-> 1, endPeriod |-> 4,
        facultyId |-> "f2", roomId |-> 1 ] }

TheoryInputs ==
    { d \in [ courses : { cs \in SeqsUpTo(TheoryCourses, MaxCourses) :
                            FirstIsCanonical(cs) },
              rooms : SeqsUpTo(Rooms, MaxRooms),
              facultyAvailability :
                  SeqsUpTo([ facultyId : FacultyIds, slots : TheoryWindowLists ],
                           MaxAvail),
              existingAssignments : SeqsUpTo(ExistingAssignments, MaxExisting),
              rules : TheoryRules ] :
        /\ YearLevelMatters(d)
        /\ Cardinality(TheoryValidAssignments(d,
                          FacultyAvailMap(d.facultyAvailability),
                          ExistingMaps(d.existingAssignments))) <= MaxVars }

----------------------------------------------------------------------------
(* The theory pass, solve_theory_timetable, step by step.                  *)

TheoryInit ==
    /\ endpoint = "solve-theory"
    /\ data \in TheoryInputs
    /\ pc = "index"
    /\ faculty_avail_map = << >>
    /\ existing = << >>
    /\ valid_assignments = {}
    /\ constraints = {}
    /\ objective = [set |-> FALSE, terms |-> {}]
    /\ unschedulable_labs = << >>
    /\ status = ""
    /\ values = {}
    /\ solveCalls = 0
    /\ steps = << >>
    /\ response = NoResponse

TheoryIndex ==
    /\ endpoint = "solve-theory"
    /\ Step("index", "enumerate")
    /\ faculty_avail_map' = FacultyAvailMap(data.facultyAvailability)
    /\ existing' = ExistingMaps(data.existingAssignments)
    /\ UNCHANGED << endpoint, data, valid_assignments, constraints, objective,
                    unschedulable_labs, status, values, solveCalls, response >>

TheoryEnumerate ==
    /\ endpoint = "solve-theory"
    /\ Step("enumerate", "load")
    /\ valid_assignments' =
          TheoryValidAssignments(data, faculty_avail_map, existing)
    /\ UNCHANGED << endpoint, data, faculty_avail_map, existing, constraints,
                    objective, unschedulable_labs, status, values, solveCalls,
                    response >>

TheoryAdd(name, next, cons) ==
    /\ endpoint = "solve-theory"
    /\ Step(name, next)
    /\ constraints' = constraints \cup cons
    /\ UNCHANGED << endpoint, data, faculty_avail_map, existing,
                    valid_assignments, objective, unschedulable_labs, status,
                    values, solveCalls, response >>

\* Constraint 1 for every course with variables; the others are only logged.
TheoryLoad ==
    TheoryAdd("load", "room",
        { TheoryLoadConstraint(data, valid_assignments, c) :
            c \in { k \in DOMAIN data.courses :
                      CourseVars(valid_assignments, k) # {} } })

TheoryRooms ==
    TheoryAdd("room", "section", TheoryRoomConstraints(data, valid_assignments))

TheorySections ==
    TheoryAdd("section", "faculty",
              TheorySectionConstraints(data, valid_assignments))

TheoryFaculty ==
    TheoryAdd("faculty", "day", TheoryFacultyConstraints(data, valid_assignments))

TheoryDays ==
    TheoryAdd("day", "objective", TheoryDayConstraints(data, valid_assignments))

TheoryMinimize ==
    /\ endpoint = "solve-theory"
    /\ Step("objective", "solve")
    /\ objective' = TheoryObjective(data, valid_assignments)
    /\ UNCHANGED << endpoint, data, faculty_avail_map, existing,
                    valid_assignments, constraints, unschedulable_labs, status,
                    values, solveCalls, response >>

TheoryRespond(r) ==
    /\ endpoint = "solve-theory"
    /\ Step("process", "done")
    /\ response' = r
    /\ UNCHANGED << endpoint, data, faculty_avail_map, existing,
                    valid_assignments, constraints, objective,
                    unschedulable_labs, status, values, solveCalls >>

TheorySolution ==
    /\ status \in {"OPTIMAL", "FEASIBLE"}
    /\ TheoryRespond(SolutionResponse(TRUE, status,
                       { TheoryAssignment(data, v) :
                           v \in { x \in valid_assignments : x \in values } },
                       << >>))

TheoryInfeasible ==
    /\ status = "INFEASIBLE"
    /\ TheoryRespond(SolutionResponse(FALSE, "INFEASIBLE", {}, << >>))

TheoryOtherStatus ==
    /\ status \notin {"OPTIMAL", "FEASIBLE", "INFEASIBLE"}
    /\ TheoryRespond(SolutionResponse(FALSE, status, {}, << >>))

TheoryNext ==
    \/ TheoryIndex \/ TheoryEnumerate \/ TheoryLoad \/ TheoryRooms
    \/ TheorySections \/ TheoryFaculty \/ TheoryDays \/ TheoryMinimize \/ Solve
    \/ TheorySolution \/ TheoryInfeasible \/ TheoryOtherStatus

TheorySpec == TheoryInit /\ [][TheoryNext]_vars

----------------------------------------------------------------------------
(* The service: a request to either endpoint.                              *)

Init == LabInit \/ TheoryInit

Next == LabNext \/ TheoryNext

Spec == Init /\ [][Next]_vars

----------------------------------------------------------------------------
(* Properties of the responses.                                            *)

IsLab == endpoint = "solve-labs"
IsTheory == endpoint = "solve-theory"
Finished == pc = "done"

\* The response carries a solution.
Solved ==
    /\ response.kind = "SolutionResponse"
    /\ response.status \in {"OPTIMAL", "FEASIBLE"}

AssignmentsOf(c) == { a \in response.assignments : a.c = c }

PeriodsOf(a) == a.endPeriod - a.startPeriod + 1

Overlap(a, b) ==
    /\ a.day = b.day
    /\ a.startPeriod <= b.endPeriod
    /\ b.startPeriod <= a.endPeriod

SomeCourseWithoutVars ==
    \E c \in DOMAIN data.courses : CourseVars(valid_assignments, c) = {}

\* C1: lab pass, status OPTIMAL or FEASIBLE: every course index has exactly
\* one assignment in the response, and every assignment is a course's.
C1_LabEachCourseOnce ==
    (IsLab /\ Solved) =>
        /\ \A c \in DOMAIN data.courses : Cardinality(AssignmentsOf(c)) = 1
        /\ \A a \in response.assignments : a.c \in DOMAIN data.courses

\* Two labs that could have met in the same block were both placed.
C1_Witness ==
    /\ IsLab /\ Solved
    /\ Len(data.courses) = 2
    /\ Cardinality(response.assignments) = 2
    /\ \E v, w \in valid_assignments :
          v[1] = 1 /\ w[1] = 2 /\ v[2] = w[2] /\ v[3] = w[3]

\* C2: theory pass, status OPTIMAL or FEASIBLE: the periods of the
\* assignments of every course sum to its periodsPerWeek, also for a course
\* without any decision variable.
C2_TheoryExactLoad ==
    (IsTheory /\ Solved) =>
        \A c \in DOMAIN data.courses :
            SumTerms({ <<PeriodsOf(a), a>> : a \in AssignmentsOf(c) })
                = data.courses[c].periodsPerWeek

\* C3: either pass, status OPTIMAL or FEASIBLE: no two assignments share a
\* room and a day with overlapping periods, whatever periodsPerDay is.
C3_RoomNoOverlap ==
    Solved =>
        \A a, b \in response.assignments :
            (a # b /\ a.roomId = b.roomId) => ~ Overlap(a, b)

\* C4: either pass, status OPTIMAL or FEASIBLE: no two assignments of one
\* section, and no two of one faculty, overlap, whatever periodsPerDay is.
C4_SectionFacultyNoOverlap ==
    Solved =>
        \A a, b \in response.assignments :
            (/\ a # b
             /\ \/ a.sectionId = b.sectionId
                \/ data.courses[a.c].facultyId = data.courses[b.c].facultyId)
            => ~ Overlap(a, b)

\* C5: lab pass: every assigned room holds at least 85% of the course's
\* students, in exact arithmetic: 100 * capacity >= 85 * studentCount.
C5_LabCapacity85 ==
    IsLab =>
        \A a \in response.assignments :
            100 * data.rooms[a.roomId].capacity
                >= 85 * data.courses[a.c].studentCount

\* C6: theory pass: every assigned room holds the course's student count.
C6_TheoryCapacity ==
    IsTheory =>
        \A a \in response.assignments :
            data.rooms[a.roomId].capacity >= data.courses[a.c].studentCount

\* A theory block was placed although a smaller room, within 85% of the
\* course's size, was on offer.
C6_Witness ==
    /\ IsTheory /\ Solved
    /\ \E a \in response.assignments : \E r \in DOMAIN data.rooms :
          /\ data.rooms[r].capacity < data.courses[a.c].studentCount
          /\ data.rooms[r].capacity >= MinAcceptable(data.courses[a.c].studentCount)

\* C7: lab pass: when a course has no candidate placement the handler does
\* not raise: it returns a response with success false, an infeasibility
\* status and no assignments.
C7_LabPreSolveStructured ==
    (IsLab /\ Finished /\ SomeCourseWithoutVars) =>
        /\ response.kind = "SolutionResponse"
        /\ response.success = FALSE
        /\ response.status = "INFEASIBLE"
        /\ response.assignments = {}

PipelineBeforeSolve ==
    << "index", "enumerate", "load", "room", "section", "faculty", "objective" >>

\* C8: lab pass: the solver is called at most once, never when a course has
\* no decision variable, and only once every variable, constraint and the
\* objective have been built, in that order.
C8_LabSolverOrder ==
    IsLab =>
        /\ solveCalls <= 1
        /\ solveCalls = Cardinality({ i \in DOMAIN steps : steps[i] = "solve" })
        /\ solveCalls > 0 =>
              /\ ~ SomeCourseWithoutVars
              /\ SubSeq(steps, 1, Len(PipelineBeforeSolve) + 1)
                    = Append(PipelineBeforeSolve, "solve")

\* A request with a placeable and an unplaceable lab ended without the
\* solver having run.
C8_Witness ==
    /\ IsLab /\ Finished
    /\ solveCalls = 0
    /\ SomeCourseWithoutVars
    /\ \E c \in DOMAIN data.courses : CourseVars(valid_assignments, c) # {}

\* The (day, period) pairs of every window of a faculty.
WindowsOf(d, f) ==
    UNION { AvailSet(d.facultyAvailability[i].slots) :
            i \in { j \in DOMAIN d.facultyAvailability :
                      d.facultyAvailability[j].facultyId = f } }

\* Scenario B: one lab course, a suitable room, and a faculty whose windows
\* hold neither periods 1-4 nor periods 5-8 of any day.
ScenarioB(d) ==
    /\ Len(d.courses) = 1
    /\ SuitableRooms(d, d.courses[1]) # {}
    /\ FacultySlotsList(d.facultyAvailability, d.courses[1].facultyId) # << >>
    /\ LET w == WindowsOf(d, d.courses[1].facultyId)
       IN  \A day \in { x[1] : x \in w } : \A block \in blocks :
              \E p \in block_periods(block) : <<day, p>> \notin w

\* C9: lab pass, Scenario B: the request ends before the solver and the
\* diagnosis of the course cites "faculty windows don't allow 4-period
\* blocks", also for a window of four periods that matches no block.
C9_ScenarioBDiagnosis ==
    (IsLab /\ Finished /\ ScenarioB(data)) =>
        /\ solveCalls = 0
        /\ Len(unschedulable_labs) = 1
        /\ \E i \in DOMAIN unschedulable_labs[1].blockingReasons :
              unschedulable_labs[1].blockingReasons[i] = ReasonShortWindows

\* C10: lab pass: when the solver reports INFEASIBLE the response has status
\* INFEASIBLE, no assignments and a diagnosis entry for every course.
C10_LabInfeasibleDiagnosis ==
    (IsLab /\ response.kind = "SolutionResponse" /\ status = "INFEASIBLE") =>
        /\ response.status = "INFEASIBLE"
        /\ response.assignments = {}
        /\ \A c \in DOMAIN data.courses :
              \E i \in DOMAIN response.diagnostic : response.diagnostic[i] = c

\* The periods an assignment, or an existing assignment, occupies.
Slots(a) == { <<a.day, p>> : p \in a.startPeriod..a.endPeriod }

ExistingOf(d) == { d.existingAssignments[i] : i \in DOMAIN d.existingAssignments }

\* C11: theory pass: a returned assignment that shares a day and a period
\* with an existing assignment has another section, another faculty and
\* another room than the existing one.
C11_TheoryRespectsExisting ==
    IsTheory =>
        \A a \in response.assignments : \A e \in ExistingOf(data) :
            (Slots(a) \cap Slots(e) # {}) =>
                /\ a.sectionId # e.sectionId
                /\ data.courses[a.c].facultyId # e.facultyId
                /\ a.roomId # e.roomId

\* A block was placed on the day of an existing assignment for the same
\* section, the same faculty or in the same room.
C11_Witness ==
    /\ IsTheory /\ Solved
    /\ \E a \in response.assignments : \E e \in ExistingOf(data) :
          /\ a.day = e.day
          /\ \/ a.sectionId = e.sectionId
             \/ data.courses[a.c].facultyId = e.facultyId
             \/ a.roomId = e.roomId

\* The entries of a faculty in the availability input.
EntriesOf(d, f) ==
    { i \in DOMAIN d.facultyAvailability : d.facultyAvailability[i].facultyId = f }

\* The faculty has a window list, and none of its lists is empty.
HasWindows(d, f) ==
    /\ EntriesOf(d, f) # {}
    /\ \A i \in EntriesOf(d, f) : d.facultyAvailability[i].slots # << >>

\* The faculty is absent from the input or has only empty window lists.
Unconstrained(d, f) ==
    \A i \in EntriesOf(d, f) : d.facultyAvailability[i].slots = << >>

\* C12: either pass: every period of a returned assignment whose faculty has
\* a non-empty window list lies inside one of that faculty's windows; once
\* the availability is indexed, a faculty with an empty window list or
\* absent from the input passes the availability filter for every placement.
C12_FacultyAvailability ==
    /\ \A a \in response.assignments :
          HasWindows(data, data.courses[a.c].facultyId) =>
              Slots(a) \subseteq WindowsOf(data, data.courses[a.c].facultyId)
    /\ pc # "index" =>
          \A c \in DOMAIN data.courses :
              Unconstrained(data, data.courses[c].facultyId) =>
                  \A day \in 0..Saturday : \A start, end \in 1..LastPeriod :
                      FacultyFree(faculty_avail_map, data.courses[c].facultyId,
                                  day, start..end)

\* A course of a faculty with windows was placed, and a course of an
\* unconstrained faculty was placed as well.
C12_Witness ==
    /\ Solved
    /\ \E a \in response.assignments :
          HasWindows(data, data.courses[a.c].facultyId)
    /\ \E a \in response.assignments :
          Unconstrained(data, data.courses[a.c].facultyId)

\* C13: Saturday afternoon is reserved for year 1: no assignment of a course
\* of another year level on day 5 reaches beyond period 4 (lab pass: it is not
\* the afternoon block; theory pass: it ends at or before period 4).
C13_SaturdayAfternoon ==
    \A a \in response.assignments :
        (a.day = Saturday /\ data.courses[a.c].yearLevel # 1) =>
            a.endPeriod <= LunchLastPeriod

\* A course of year 2 was placed on Saturday.
C13_Witness ==
    /\ Solved
    /\ \E a \in response.assignments :
          a.day = Saturday /\ data.courses[a.c].yearLevel # 1

\* The periods the response gives a section on a day.
PeriodsOnDay(s, day) ==
    SumTerms({ <<PeriodsOf(a), a>> :
                a \in { x \in response.assignments :
                          x.sectionId = s /\ x.day = day } })

\* C14: theory pass: the periods of the returned assignments of a section
\* on a day sum to at most rules.maxPeriodsPerDay.
C14_TheoryDailyCap ==
    IsTheory =>
        \A s \in SectionsOf(data) : \A day \in Days(data.rules) :
            PeriodsOnDay(s, day) <= data.rules.maxPeriodsPerDay

\* Two courses of a section fill the section's daily cap.
C14_Witness ==
    /\ IsTheory /\ Solved
    /\ \E s \in SectionsOf(data) : \E day \in Days(data.rules) :
          /\ PeriodsOnDay(s, day) = data.rules.maxPeriodsPerDay
          /\ Cardinality({ a.c : a \in { x \in response.assignments :
                                           x.sectionId = s /\ x.day = day } }) = 2

\* C15: theory pass: no returned assignment has startPeriod <= 4 and
\* endPeriod >= 5.
C15_TheoryNoLunchStraddle ==
    IsTheory =>
        \A a \in response.assignments :
            ~ (a.startPeriod <= 4 /\ a.endPeriod >= 5)

\* A course whose faculty is free on periods 4 and 5 got a block of two or
\* more periods.
C15_Witness ==
    /\ IsTheory /\ Solved
    /\ \E a \in response.assignments :
          /\ PeriodsOf(a) >= 2
          /\ FacultyFree(faculty_avail_map, data.courses[a.c].facultyId,
                         a.day, 4..5)
          /\ data.courses[a.c].periodsPerWeek >= 2

\* The objective cost of one returned assignment: the capacity waste, and
\* in the theory pass the afternoon and the Saturday penalty.
AssignmentCost(a) ==
    Max(0, data.rooms[a.roomId].capacity - data.courses[a.c].studentCount)
    + (IF IsTheory /\ a.startPeriod >= 5 THEN AfternoonPenalty ELSE 0)
    + (IF IsTheory /\ a.day = Saturday THEN SaturdayPenalty ELSE 0)

TotalCost(A) == SumTerms({ <<AssignmentCost(a), a>> : a \in A })

\* The assignments a run returns when the solver sets the variables S to 1.
Returned(S) ==
    IF IsLab THEN { LabAssignment(data, v) : v \in S }
    ELSE { TheoryAssignment(data, v) : v \in S }

\* The other runs of the same pass on the same input: the variables,
\* constraints and objective are the same, the solver's answer is any that
\* its contract allows.
Reruns(statuses) ==
    { r \in SolveOutcomes(valid_assignments, constraints, objective) :
        r[1] \in statuses }

\* C16 as stated: a run that returned a solution (OPTIMAL or FEASIBLE) has
\* the same total objective cost as every other run of the same input that
\* returns a solution.
C16_EqualCost ==
    Solved =>
        \A r \in Reruns({"OPTIMAL", "FEASIBLE"}) :
            TotalCost(Returned(r[2])) = TotalCost(response.assignments)

\* C16, amended: a run that returned OPTIMAL has the same total objective
\* cost as every other run of the same input that returns OPTIMAL, and no
\* run that returns FEASIBLE has a lower one.
C16_OptimalEqualCost ==
    (Solved /\ response.status = "OPTIMAL") =>
        /\ \A r \in Reruns({"OPTIMAL"}) :
              TotalCost(Returned(r[2])) = TotalCost(response.assignments)
        /\ \A r \in Reruns({"FEASIBLE"}) :
              TotalCost(Returned(r[2])) >= TotalCost(response.assignments)

\* An OPTIMAL run whose input has another optimal choice of assignments and
\* a costlier solution as well.
C16_Witness ==
    /\ Solved /\ response.status = "OPTIMAL"
    /\ \E r \in Reruns({"OPTIMAL"}) : Returned(r[2]) # response.assignments
    /\ \E r \in Reruns({"FEASIBLE"}) :
          TotalCost(Returned(r[2])) > TotalCost(response.assignments)

\* C17: either pass: every returned assignment lies inside the configured
\* calendar, 0 <= day < daysPerWeek and
\* 1 <= startPeriod <= endPeriod <= periodsPerDay, whatever periodsPerDay is.
C17_InsideCalendar ==
    \A a \in response.assignments :
        /\ 0 <= a.day /\ a.day < data.rules.daysPerWeek
        /\ 1 <= a.startPeriod
        /\ a.startPeriod <= a.endPeriod
        /\ a.endPeriod <= data.rules.periodsPerDay

\* C18: theory pass: every returned assignment is at most
\* rules.maxPeriodsPerBlock periods long, and at most the course's
\* periodsPerWeek, whatever maxPeriodsPerBlock is.
C18_TheoryBlockLength ==
    IsTheory =>
        \A a \in response.assignments :
            /\ PeriodsOf(a) <= data.rules.maxPeriodsPerBlock
            /\ PeriodsOf(a) <= data.courses[a.c].periodsPerWeek

Recorded(lab, reason) ==
    \E i \in DOMAIN lab.blockingReasons : lab.blockingReasons[i] = reason

\* The availability filter rejected a block of the faculty.
FacultyFilterRejects(d, f) ==
    \E day \in Days(d.rules) : \E block \in blocks :
        ~ FacultyFree(FacultyAvailMap(d.facultyAvailability), f, day,
                      block_periods(block))

\* C19: lab pass, pre-solve diagnosis: every recorded blocking reason names
\* a filter that rejected placements of the course, "faculty has NO
\* availability windows" is never recorded for an unconstrained faculty, and
\* no record is left with "Unknown constraint conflict".
C19_DiagnosisSound ==
    IsLab =>
        \A i \in DOMAIN unschedulable_labs :
            LET lab == unschedulable_labs[i]
                course == data.courses[lab.c]
            IN  /\ Recorded(lab, ReasonNoRooms) =>
                      \A r \in DOMAIN data.rooms :
                          ~ LabRoomFits(data.rooms[r], course)
                /\ Recorded(lab, ReasonNoWindows) =>
                      /\ ~ Unconstrained(data, course.facultyId)
                      /\ FacultyFilterRejects(data, course.facultyId)
                /\ Recorded(lab, ReasonShortWindows) =>
                      FacultyFilterRejects(data, course.facultyId)
                /\ lab.blockingReasons # << >>
                /\ lab.reason # << UnknownConflict >>

====
